---- MODULE Spec2Model ----
(***************************************************************************)
(* Model of scripts/analyze.py: the metrics collection pipeline (main),    *)
(* its helpers (setup_repo, analyze_version, analyze_directory,            *)
(* export_version, get_commit_for_date), the commit classifier             *)
(* (classify_commit) and the recent-commit feed (get_recent_commits).      *)
(***************************************************************************)
EXTENDS Integers, Sequences, FiniteSets, TLC

VARIABLES
    pc,              \* position of main(): see the actions below
    exit_code,       \* -1 while running, 0 normal end, 1 after sys.exit(1)
    mirrors,         \* repos whose bare mirror directory exists under repos/
    selected,        \* ymca_github_repos followed by drupal_org_modules
    todo,            \* index of the next entry of selected to provision
    attempts,        \* history: outcomes of the clone/fetch attempts per repo
    repo_dirs,       \* list of usable mirrors (main's repo_dirs)
    today,           \* datetime.now() of line 506
    target,          \* loop variable of the checkpoint enumeration
    snapshot_dates,  \* list built by the enumeration loop
    idx,             \* 1-based position of the snapshot loop
    current_date,    \* strftime("%Y-%m") of datetime.now() at line 530
    snapshots,       \* main's snapshots list
    last_call,       \* history: the most recent analyze_version call
    git_logs,        \* what git log printed for each repo (input of the feed)
    commits,         \* result of get_recent_commits
    written,         \* number of result documents written to data.json
    data_file,       \* content of data.json
    subject_in,         \* argument of classify_commit
    commit_type,     \* result of classify_commit
    aggregate_logs,  \* what the two git log commands of the counts printed
    commitsPerYear,  \* result of get_commits_per_year
    commitsMonthly,  \* result of get_commits_per_month
    replay           \* the inputs of a first run, given again to a second run

vars == <<pc, exit_code, mirrors, selected, todo, attempts, repo_dirs, today,
          target, snapshot_dates, idx, current_date, snapshots, last_call,
          git_logs, commits, written, data_file, subject_in, commit_type,
          aggregate_logs, commitsPerYear, commitsMonthly, replay>>

----------------------------------------------------------------------------
(* Bounds of the model *)

\* at most this many repos are named in repos_config.json
MaxRepos == 2
\* the clock of the run lies within this many calendar years after 2015
MaxYears == 1
\* the clock of the checkpoint enumeration alone lies within this many
EnumYears == 6
\* a commit subject given to the classifier is a leading word followed by
\* at most this many further characters
MaxParts == 3
\* one repo's git log lists at most this many freely chosen commits, and
\* the other one more commit ...
MaxRecent == 2
\* ... followed, in some runs, by this many commits of one day
BulkLen == 199
\* the full git log of one repo lists at most this many commits where the
\* per-year and per-month counts are computed on their own
MaxLogged == 2

----------------------------------------------------------------------------
(* Generic helpers *)

Range(s) == {s[i] : i \in 1..Len(s)}

Last(s) == s[Len(s)]

\* lexicographic order on equal-length digit tuples (string comparison of
\* zero-padded dates)
RECURSIVE LexLess(_, _)
LexLess(a, b) ==
    IF a = <<>> \/ b = <<>> THEN a = <<>> /\ b # <<>>
    ELSE IF Head(a) # Head(b) THEN Head(a) < Head(b)
    ELSE LexLess(Tail(a), Tail(b))

----------------------------------------------------------------------------
(* Dates *)

\* DISTRIBUTION_START_DATE = datetime(2015, 10, 1)
StartYear == 2015
StartMonth == 10

DISTRIBUTION_START_DATE == [year |-> StartYear, month |-> StartMonth, day |-> 1]

\* a faulty variant of the loop condition: target < today on calendar days
DateLT(a, b) ==
    \/ a.year < b.year
    \/ a.year = b.year /\ a.month < b.month
    \/ a.year = b.year /\ a.month = b.month /\ a.day < b.day

\* datetime comparison target <= today; both carry a time of day, the
\* checkpoint's being 00:00:00, so the calendar fields decide
DateLE(a, b) ==
    \/ a.year < b.year
    \/ a.year = b.year /\ a.month < b.month
    \/ a.year = b.year /\ a.month = b.month /\ a.day <= b.day

\* values datetime.now() can take in the model: any day from the epoch on
Days == {1, 28}
ClockWithin(years) ==
    {d \in [year : StartYear..(StartYear + years), month : 1..12, day : Days] :
        DateLE(DISTRIBUTION_START_DATE, d)}
Clock == ClockWithin(MaxYears)
EnumClock == ClockWithin(EnumYears)

\* the clock values drawn for whole runs of the pipeline: checkpoint months
\* and the month before one
PipelineMonths == {4, 9, 10}
PipelineClock == {d \in Clock : d.month \in PipelineMonths /\ d.day = 28}

\* strftime("%Y-%m"): four year digits, a dash (constant, left out), two
\* month digits
strftime_Ym(d) ==
    << d.year \div 1000, (d.year \div 100) % 10, (d.year \div 10) % 10,
       d.year % 10, d.month \div 10, d.month % 10 >>

\* the calendar month after d (the clock may advance while the run works)
MonthAfter(d) ==
    IF d.month = 12 THEN [year |-> d.year + 1, month |-> 1, day |-> 1]
    ELSE [year |-> d.year, month |-> d.month + 1, day |-> 1]

\* lines 511-515: the next semi-annual checkpoint
NextCheckpoint(t) ==
    LET new_month == t.month + 6 IN
    IF new_month > 12
    THEN [t EXCEPT !.year = t.year + 1, !.month = new_month - 12]
    ELSE [t EXCEPT !.month = new_month]

----------------------------------------------------------------------------
(* Configuration and provisioning *)

GithubRepo(i) == [kind |-> "github", n |-> i]
DrupalRepo(i) == [kind |-> "drupal", n |-> i]
AllRepos == {GithubRepo(i) : i \in 1..MaxRepos} \cup {DrupalRepo(1)}

\* repos_config.json: github_repos_to_analyze (entry i carries its "ymca"
\* flag) and drupal_org_ymca_modules (no module or one)
Configs ==
    UNION {[github : [1..g -> BOOLEAN], drupal : {d}] :
              <<g, d>> \in {x \in (0..MaxRepos) \X (0..1) : x[1] + x[2] <= MaxRepos}}

\* lines 477-479: ymca_github_repos followed by drupal_org_modules
RECURSIVE YmcaGithub(_, _)
YmcaGithub(flags, i) ==
    IF i > Len(flags) THEN <<>>
    ELSE (IF flags[i] THEN <<GithubRepo(i)>> ELSE <<>>) \o YmcaGithub(flags, i + 1)

SelectedRepos(config) ==
    YmcaGithub(config.github, 1) \o [i \in 1..config.drupal |-> DrupalRepo(i)]

\* run_command outcomes of git clone / git fetch
CmdOutcomes == {"ok", "fail"}

\* a faulty variant that returns the path also when the command failed
setup_repo_keep_failed(repo, exists, outcome) == <<repo>>

\* lines 87-130, setup_repo / setup_drupal_org_repo (the same code on
\* another path and URL): the mirror path, or None

setup_repo(repo, exists, outcome) ==
    IF exists
    THEN (IF outcome # "ok" THEN <<>> ELSE <<repo>>)    \* git fetch origin --tags
    ELSE (IF outcome # "ok" THEN <<>> ELSE <<repo>>)    \* git clone --bare

----------------------------------------------------------------------------
(* Checkpoint export and analyzer invocation *)

\* what a repo's subdirectory of output/work holds
Contents == {"absent", "empty", "partial", "full"}

\* git rev-list -1 --before=...: a hash, nothing, or a failed command
RevOutcomes == {"found", "nothing", "fail"}
\* git archive | tar -x: both exit 0, or one fails (nonzero exit, timeout or
\* other exception) after extracting nothing or part of the tree
ExportOutcomes == {"ok", "fail_empty", "fail_partial"}

\* what the environment does for one repo during one analyze_version call
RepoEnv ==
    {[rev |-> "found", export |-> e] : e \in ExportOutcomes}
        \cup {[rev |-> r, export |-> "ok"] : r \in RevOutcomes \ {"found"}}

\* lines 133-141
get_commit_for_date(rev) == IF rev = "found" THEN <<"commit">> ELSE <<>>

\* lines 238-264: the subdirectory is recreated empty, then the archive is
\* extracted into it; nothing removes what a failed extraction left behind
export_version(outcome) ==
    [ok |-> (outcome = "ok"),
     content |-> CASE outcome = "ok" -> "full"
                   [] outcome = "fail_partial" -> "partial"
                   [] OTHER -> "empty"]

\* the analyzer's code size figures in the model
LocValues == {10, 20}

\* what the php analyzer does when run on a tree
AnalyzerKinds == {"ok", "nophp", "nonzero", "empty", "badjson", "emptyobj", "timeout"}
AnalyzerFailure(k) == [kind |-> k, loc |-> 0]
AnalyzerResponses ==
    {[kind |-> "ok", loc |-> l] : l \in LocValues}
        \cup {AnalyzerFailure(k) : k \in AnalyzerKinds \ {"ok"}}
\* the responses drawn for the per-repo runs (each failure kind takes the
\* same path through analyze_directory as in the aggregate run)
PerRepoResponses ==
    {r \in AnalyzerResponses : r.kind \in {"ok", "nonzero", "timeout"}}

\* "if x": None (the empty option) is falsy
NoValue == <<>>
Some(x) == <<x>>

\* a faulty variant without the handler of lines 354-356: the timeout
\* propagates ("raise")
analyze_directory_uncaught_timeout(has_php, resp) ==
    IF ~has_php \/ resp.kind = "nophp" THEN [status |-> "none", loc |-> 0, ran |-> 0]
    ELSE IF resp.kind = "timeout" THEN [status |-> "raise", loc |-> 0, ran |-> 1]
    ELSE IF resp.kind = "ok" THEN [status |-> "data", loc |-> resp.loc, ran |-> 1]
    ELSE IF resp.kind = "emptyobj" THEN [status |-> "empty_dict", loc |-> 0, ran |-> 1]
    ELSE [status |-> "none", loc |-> 0, ran |-> 1]

\* lines 323-356: status "data" with the parsed JSON object's code size,
\* "empty_dict" for a parsed {}, "none" for None; ran tells whether the php
\* process was started.
analyze_directory(has_php, resp) ==
    IF ~has_php \/ resp.kind = "nophp"
    THEN [status |-> "none", loc |-> 0, ran |-> 0]                       \* 326-329
    ELSE CASE resp.kind = "nonzero" -> [status |-> "none", loc |-> 0, ran |-> 1]   \* 340-342
           [] resp.kind = "empty" -> [status |-> "none", loc |-> 0, ran |-> 1]     \* 344-346
           [] resp.kind = "badjson" -> [status |-> "none", loc |-> 0, ran |-> 1]   \* 351-353
           [] resp.kind = "timeout" -> [status |-> "none", loc |-> 0, ran |-> 1]   \* 354-356
           [] resp.kind = "emptyobj" -> [status |-> "empty_dict", loc |-> 0, ran |-> 1]
           [] OTHER -> [status |-> "data", loc |-> resp.loc, ran |-> 1]            \* 348-350

\* "if not data" / "if repo_data": None and {} are falsy
Truthy(run) == run.status = "data"

\* stable sort, descending by loc (list.sort(key=..., reverse=True))
RECURSIVE InsertByLocDesc(_, _)
InsertByLocDesc(sorted, x) ==
    IF sorted = <<>> THEN <<x>>
    ELSE IF Head(sorted).loc >= x.loc
         THEN <<Head(sorted)>> \o InsertByLocDesc(Tail(sorted), x)
         ELSE <<x>> \o sorted

RECURSIVE SortByLocDesc(_)
SortByLocDesc(s) ==
    IF s = <<>> THEN <<>>
    ELSE InsertByLocDesc(SortByLocDesc(SubSeq(s, 1, Len(s) - 1)), s[Len(s)])

\* lines 375-381: the export loop over repo_dirs
WorkAfterExport(dirs, env) ==
    [r \in AllRepos |->
        IF r \in Range(dirs) /\ get_commit_for_date(env[r].rev) # NoValue
        THEN export_version(env[r].export).content
        ELSE "absent"]

ExportedRepos(dirs, env) ==
    SelectSeq(dirs, LAMBDA r : get_commit_for_date(env[r].rev) # NoValue
                                  /\ export_version(env[r].export).ok)

FailedRepos(dirs, env) ==
    {r \in Range(dirs) : get_commit_for_date(env[r].rev) # NoValue
                             /\ ~export_version(env[r].export).ok}

HasFiles(work) == \E r \in AllRepos : work[r] \in {"partial", "full"}

\* lines 408-425: one analyzer run per exported repo subdirectory
RECURSIVE PerRepoRuns(_, _, _)
PerRepoRuns(exported, work, per) ==
    IF exported = <<>> THEN <<>>
    ELSE LET r == Head(exported)
             run == IF work[r] # "absent"
                    THEN analyze_directory(work[r] \in {"partial", "full"}, per[r])
                    ELSE [status |-> "none", loc |-> 0, ran |-> 0]
         IN <<[name |-> r, run |-> run]>> \o PerRepoRuns(Tail(exported), work, per)

\* a snapshot entry (lines 394-403, 428): its date and, when collected, the
\* per-repo ranking; the analyzer's metrics are copied as they are
Snapshot(year_month, has_per_repo, per_repo) ==
    [date |-> year_month, hasPerRepo |-> has_per_repo, perRepo |-> per_repo]

NoSnapshot == Snapshot(<<>>, FALSE, <<>>)

\* a faulty variant that returns an empty entry for the checkpoint
NothingExportedEmptyEntry(year_month) ==
    [status |-> "snapshot", snap |-> Snapshot(year_month, FALSE, <<>>)]

\* lines 383-385: what analyze_version returns when nothing was exported
NothingExported(year_month) == [status |-> "none", snap |-> NoSnapshot]

\* lines 359-431.  env: per repo the outcome of commit resolution and
\* export, agg: the analyzer's response to the aggregate tree, per: its
\* response to each repo subdirectory.  Returns the status ("snapshot",
\* "none" or "raise"), the snapshot, and the trace of the call.
analyze_version(dirs, year_month, collect_per_repo, env, agg, per) ==
    LET work == WorkAfterExport(dirs, env)
        exported_repos == ExportedRepos(dirs, env)
        exported_any == exported_repos # <<>>
        run == analyze_directory(HasFiles(work), agg)
        runs == PerRepoRuns(exported_repos, work, per)
        ok_runs == SelectSeq(runs, LAMBDA x : Truthy(x.run))
        per_repo == SortByLocDesc([i \in 1..Len(ok_runs) |->
                        [name |-> ok_runs[i].name, loc |-> ok_runs[i].run.loc]])
        trace0 == [date |-> year_month, collect |-> collect_per_repo,
                   work |-> work, exported |-> exported_repos,
                   failed |-> FailedRepos(dirs, env), agg_ran |-> 0,
                   handed |-> FALSE]
        trace1 == [trace0 EXCEPT !.agg_ran = run.ran, !.handed = TRUE]
    IN  IF ~exported_any
        THEN [status |-> NothingExported(year_month).status,
              snap |-> NothingExported(year_month).snap, trace |-> trace0]
        ELSE IF run.status = "raise"
        THEN [status |-> "raise", snap |-> NoSnapshot, trace |-> trace1]
        ELSE IF ~Truthy(run)
        THEN [status |-> "none", snap |-> NoSnapshot, trace |-> trace1]
        ELSE IF ~collect_per_repo
        THEN [status |-> "snapshot",
              snap |-> Snapshot(year_month, FALSE, <<>>), trace |-> trace1]
        ELSE IF \E i \in 1..Len(runs) : runs[i].run.status = "raise"
        THEN [status |-> "raise", snap |-> NoSnapshot, trace |-> trace1]
        ELSE [status |-> "snapshot",
              snap |-> Snapshot(year_month, TRUE, per_repo), trace |-> trace1]

----------------------------------------------------------------------------
(* Commit classification.  A string is a sequence of one-character strings. *)

UpperCase == <<"A", "B", "C", "D", "E", "F", "G", "H", "I", "J", "K", "L", "M",
               "N", "O", "P", "Q", "R", "S", "T", "U", "V", "W", "X", "Y", "Z">>
LowerCase == <<"a", "b", "c", "d", "e", "f", "g", "h", "i", "j", "k", "l", "m",
               "n", "o", "p", "q", "r", "s", "t", "u", "v", "w", "x", "y", "z">>
Whitespace == {" ", "\t", "\n"}
Digits == {"0", "1", "2", "3", "4", "5", "6", "7", "8", "9"}

\* str.lower() on one character
LowerChar(c) ==
    IF \E i \in 1..Len(UpperCase) : UpperCase[i] = c
    THEN LowerCase[CHOOSE i \in 1..Len(UpperCase) : UpperCase[i] = c]
    ELSE c

\* a faulty variant that keeps the case of the subject
lower_identity(str) == str

\* str.lower()
lower(str) == [i \in 1..Len(str) |-> LowerChar(str[i])]

\* str.strip()
RECURSIVE lstrip(_)
lstrip(str) ==
    IF str # <<>> /\ Head(str) \in Whitespace THEN lstrip(Tail(str)) ELSE str

RECURSIVE rstrip(_)
rstrip(str) ==
    IF str # <<>> /\ str[Len(str)] \in Whitespace
    THEN rstrip(SubSeq(str, 1, Len(str) - 1)) ELSE str

strip(str) == rstrip(lstrip(str))

\* str.startswith(prefix), at position pos (1-based)
StartsWithAt(str, pos, prefix) ==
    /\ pos + Len(prefix) - 1 <= Len(str)
    /\ \A i \in 1..Len(prefix) : str[pos + i - 1] = prefix[i]

(* The regular expressions, piece by piece.  A piece maps the set of      *)
(* positions at which the match so far may end to the positions after the *)
(* piece; re.match succeeds when the last piece leaves a position.        *)

\* (w1|w2|...) anchored at the start of the string
ReWords(str, words) ==
    {Len(w) + 1 : w \in {x \in words : StartsWithAt(str, 1, x)}}

\* (\([^)]+\))?
ReOptScope(str, ends) ==
    ends \cup
    {q + 1 : q \in {q \in 1..Len(str) :
        \E p \in ends :
            /\ p <= Len(str) /\ str[p] = "("
            /\ q > p + 1 /\ str[q] = ")"
            /\ \A k \in (p + 1)..(q - 1) : str[k] # ")"}}

\* !?
ReOptChar(str, ends, c) ==
    ends \cup {p + 1 : p \in {p \in ends : p <= Len(str) /\ str[p] = c}}

\* a literal character
ReChar(str, ends, c) ==
    {p + 1 : p \in {p \in ends : p <= Len(str) /\ str[p] = c}}

\* \s*
ReSpaces(str, ends) ==
    {q \in 1..(Len(str) + 1) :
        \E p \in ends : p <= q /\ \A k \in p..(q - 1) : str[k] \in Whitespace}

\* \d+
ReDigits(str, ends) ==
    {q \in 1..(Len(str) + 1) :
        \E p \in ends : p < q /\ \A k \in p..(q - 1) : str[k] \in Digits}

\* ^(types)(\([^)]+\))?!?:
ConventionalMatch(str, types) ==
    ReChar(str, ReOptChar(str, ReOptScope(str, ReWords(str, types)), "!"), ":") # {}

BugTypes ==
    {<<"f","i","x">>, <<"b","u","g","f","i","x">>, <<"b","u","g">>,
     <<"h","o","t","f","i","x">>}
FeatureTypes == {<<"f","e","a","t">>, <<"f","e","a","t","u","r","e">>}
MaintenanceTypes ==
    {<<"b","u","i","l","d">>, <<"c","h","o","r","e">>, <<"c","i">>,
     <<"d","o","c","s">>, <<"s","t","y","l","e">>,
     <<"r","e","f","a","c","t","o","r">>, <<"p","e","r","f">>,
     <<"t","e","s","t">>, <<"t","a","s","k">>, <<"r","e","v","e","r","t">>}
IssueWord == <<"i","s","s","u","e">>
MergeWord == <<"m","e","r","g","e">>

\* ^issue\s*#?\d+
IssueMatch(str) ==
    ReDigits(str, ReOptChar(str, ReSpaces(str, ReWords(str, {IssueWord})), "#")) # {}

\* lines 166-198
classify_commit(subject) ==
    LET subj == lower(strip(subject)) IN
    IF ConventionalMatch(subj, BugTypes) THEN "Bug"
    ELSE IF ConventionalMatch(subj, FeatureTypes) THEN "Feature"
    ELSE IF ConventionalMatch(subj, MaintenanceTypes) THEN "Maintenance"
    ELSE IF IssueMatch(subj) THEN "Maintenance"
    ELSE IF StartsWithAt(subj, 1, MergeWord) THEN "Maintenance"
    ELSE "Unknown"

----------------------------------------------------------------------------
(* Recent-commit feed *)

\* return commits[:200]
FeedLimit == 200

\* %cs, the committer date as YYYY-MM-DD (dashes left out): the sort key
CommitDateString(d) ==
    << d.year \div 1000, (d.year \div 100) % 10, (d.year \div 10) % 10,
       d.year % 10, d.month \div 10, d.month % 10, d.day \div 10, d.day % 10 >>

\* strptime(..., "%Y-%m-%d"): the calendar fields of a date string
strptime_Ymd(str) ==
    [year |-> str[1] * 1000 + str[2] * 100 + str[3] * 10 + str[4],
     month |-> str[5] * 10 + str[6],
     day |-> str[7] * 10 + str[8]]

\* strftime("%b %d, %Y"): month name (by its number), day, year
strftime_bdY(d) == [b |-> d.month, d |-> d.day, Y |-> d.year]

\* the text git log prints for one commit under
\* --pretty=format:COMMIT:%H:%cs:%s --shortstat: the header line, then, when
\* the commit has a diffstat, the summary line ("N files changed", naming
\* insertions and deletions only when there are some) and a blank line
HeaderLine(c) ==
    [kind |-> "header", hash |-> c.hash, date |-> CommitDateString(c.date),
     msg |-> c.msg, ins |-> <<>>, del |-> <<>>]
StatLine(c) ==
    [kind |-> "changed", hash |-> 0, date |-> <<>>, msg |-> <<>>,
     ins |-> IF c.ins > 0 THEN <<c.ins>> ELSE <<>>,
     del |-> IF c.del > 0 THEN <<c.del>> ELSE <<>>]
BlankLine ==
    [kind |-> "blank", hash |-> 0, date |-> <<>>, msg |-> <<>>,
     ins |-> <<>>, del |-> <<>>]

CommitLines(c) ==
    IF c.stat THEN <<HeaderLine(c), StatLine(c), BlankLine>>
    ELSE <<HeaderLine(c)>>

\* the lines of the commits log[lo..hi], in order (the range is halved so
\* that long logs evaluate in logarithmic depth)
RECURSIVE GitLogLines(_, _, _)
GitLogLines(log, lo, hi) ==
    IF lo > hi THEN <<>>
    ELSE IF lo = hi THEN CommitLines(log[lo])
    ELSE LET mid == (lo + hi) \div 2
         IN  GitLogLines(log, lo, mid) \o GitLogLines(log, mid + 1, hi)

GitLogOutput(log) == GitLogLines(log, 1, Len(log))

\* current_msg = parts[3][:80]
MsgLimit == 80
Truncate(msg, n) == IF Len(msg) <= n THEN msg ELSE SubSeq(msg, 1, n)

\* int(match.group(1)) if the pattern matched, else 0 (lines 293-299)
CountOf(match) == IF match # <<>> THEN match[1] ELSE 0

\* lines 284-315: the scan of one repo's output; cur is the pending header
\* (current_hash, current_date, current_msg)
NoHeader == [hash |-> <<>>, date |-> <<>>, msg |-> <<>>]

FeedEntry(cur, line, repo_name) ==
    [hash |-> cur.hash[1],
     message |-> cur.msg,
     date |-> strftime_bdY(strptime_Ymd(cur.date)),
     sort_date |-> cur.date,
     lines |-> CountOf(line.ins) + CountOf(line.del),
     type |-> classify_commit(cur.msg),
     repo |-> repo_name]

\* lines 285-315: the body of the for loop on one line; out is what it
\* appends to commits
ScanLine(cur, line, repo_name) ==
    IF line.kind = "header"
    THEN [cur |-> [hash |-> <<line.hash>>, date |-> line.date,
                   msg |-> Truncate(line.msg, MsgLimit)],
          out |-> <<>>]
    ELSE IF line.kind = "changed" /\ cur.hash # <<>>
    THEN [cur |-> [cur EXCEPT !.hash = <<>>],
          out |-> <<FeedEntry(cur, line, repo_name)>>]
    ELSE [cur |-> cur, out |-> <<>>]

\* the for loop on lines[lo..hi], entered with the pending header cur: the
\* loop body applied line after line (the range is halved so that long
\* outputs evaluate in logarithmic depth)
RECURSIVE ScanRange(_, _, _, _, _)
ScanRange(lines, lo, hi, cur, repo_name) ==
    IF lo > hi THEN [cur |-> cur, out |-> <<>>]
    ELSE IF lo = hi THEN ScanLine(cur, lines[lo], repo_name)
    ELSE LET mid == (lo + hi) \div 2
             left == ScanRange(lines, lo, mid, cur, repo_name)
             right == ScanRange(lines, mid + 1, hi, left.cur, repo_name)
         IN  [out |-> left.out \o right.out, cur |-> right.cur]

ScanLines(lines, cur, repo_name) ==
    ScanRange(lines, 1, Len(lines), cur, repo_name).out

\* lines 271-278: repos whose git log fails contribute nothing
RECURSIVE ScanRepos(_, _)
ScanRepos(dirs, logs) ==
    IF dirs = <<>> THEN <<>>
    ELSE (IF logs[Head(dirs)].code # 0 THEN <<>>
          ELSE ScanLines(logs[Head(dirs)].out, NoHeader, Head(dirs)))
             \o ScanRepos(Tail(dirs), logs)

\* sorted(commits, key=sort_date, reverse=True): stable, newest first.
\* The keys are taken in descending order and, for each key, its entries in
\* their original order.
MaxKey(keys) == CHOOSE k \in keys : \A other \in keys : ~LexLess(k, other)

RECURSIVE ConcatByKeyDesc(_, _)
ConcatByKeyDesc(s, keys) ==
    IF keys = {} THEN <<>>
    ELSE LET k == MaxKey(keys) IN
         SelectSeq(s, LAMBDA c : c.sort_date = k) \o ConcatByKeyDesc(s, keys \ {k})

SortByDateDesc(s) == ConcatByKeyDesc(s, {s[i].sort_date : i \in 1..Len(s)})

\* del c['sort_date']
DropSortKey(c) ==
    [k \in DOMAIN c \ {"sort_date"} |-> c[k]]

\* a faulty variant that does not cut the list
TakeAll(s, n) == s

\* commits[:200]
Take(s, n) == IF Len(s) <= n THEN s ELSE SubSeq(s, 1, n)

\* lines 267-320
get_recent_commits(dirs, logs) ==
    LET sorted == SortByDateDesc(ScanRepos(dirs, logs))
    IN  Take([i \in 1..Len(sorted) |-> DropSortKey(sorted[i])], FeedLimit)

\* the environments of one call: responses that the call does not read are
\* fixed, so that each behaviour of the call is drawn once
NoResponse == AnalyzerFailure("nophp")

PerEnvs(dirs, exported, reads_per) ==
    IF reads_per
    THEN {[r \in Range(dirs) |-> IF r \in exported THEN p[r] ELSE NoResponse] :
             p \in [exported -> PerRepoResponses]}
    ELSE {[r \in Range(dirs) |-> NoResponse]}

CallEnvs(dirs, collect_per_repo) ==
    UNION {
        LET exported == Range(ExportedRepos(dirs, env)) IN
        UNION {
            {[env |-> env, agg |-> agg, per |-> per] :
                per \in PerEnvs(dirs, exported, collect_per_repo /\ agg.kind = "ok")} :
            agg \in IF exported = {} THEN {NoResponse} ELSE AnalyzerResponses} :
        env \in [Range(dirs) -> RepoEnv]}

----------------------------------------------------------------------------
(* Commit counts per year and per month *)

DigitChars == <<"0", "1", "2", "3", "4", "5", "6", "7", "8", "9">>
DigitValue(c) == (CHOOSE i \in 1..10 : DigitChars[i] = c) - 1

\* git's --date=format:%Y and --date=format:%Y-%m
FormatYear(d) ==
    << DigitChars[(d.year \div 1000) + 1], DigitChars[((d.year \div 100) % 10) + 1],
       DigitChars[((d.year \div 10) % 10) + 1], DigitChars[(d.year % 10) + 1] >>
FormatYearMonth(d) ==
    FormatYear(d) \o <<"-", DigitChars[(d.month \div 10) + 1],
                       DigitChars[(d.month % 10) + 1]>>

\* --pretty=format: puts a newline between the commits' lines, none after
\* the last
RECURSIVE JoinLines(_)
JoinLines(lines) ==
    IF lines = <<>> THEN <<>>
    ELSE IF Len(lines) = 1 THEN lines[1]
    ELSE lines[1] \o <<"\n">> \o JoinLines(Tail(lines))

\* stdout of git log --pretty=format:%ad --date=format:%Y
YearLogOutput(history) ==
    JoinLines([i \in 1..Len(history) |-> FormatYear(history[i].date)])

\* stdout of git log --pretty=format:%ad|%s --date=format:%Y-%m
MonthLogOutput(history) ==
    JoinLines([i \in 1..Len(history) |->
        FormatYearMonth(history[i].date) \o <<"|">> \o history[i].msg])

\* str.split(sep): the pieces between the separators, at least one
RECURSIVE split(_, _)
split(str, sep) ==
    IF \A i \in 1..Len(str) : str[i] # sep THEN <<str>>
    ELSE LET at == CHOOSE i \in 1..Len(str) :
                       str[i] = sep /\ \A j \in 1..(i - 1) : str[j] # sep
         IN  <<SubSeq(str, 1, at - 1)>> \o split(SubSeq(str, at + 1, Len(str)), sep)

\* line.split('|', 1) of a line that holds a '|'
SplitOnce(str, sep) ==
    LET at == CHOOSE i \in 1..Len(str) :
                  str[i] = sep /\ \A j \in 1..(i - 1) : str[j] # sep
    IN  <<SubSeq(str, 1, at - 1), SubSeq(str, at + 1, Len(str))>>

\* int(year)
RECURSIVE int(_)
int(str) ==
    IF str = <<>> THEN 0
    ELSE 10 * int(SubSeq(str, 1, Len(str) - 1)) + DigitValue(str[Len(str)])

\* the order of Python strings made of digits and dashes (code points)
Ord(c) == IF c = "-" THEN 45 ELSE 48 + DigitValue(c)
StrLess(a, b) ==
    \/ \E i \in 1..Len(a) :
          /\ i <= Len(b)
          /\ Ord(a[i]) < Ord(b[i])
          /\ \A j \in 1..(i - 1) : a[j] = b[j]
    \/ Len(a) < Len(b) /\ \A j \in 1..Len(a) : a[j] = b[j]

\* a faulty variant that keeps a key at every occurrence
DictKeysRepeated(keys) == keys

\* the keys of a dict filled in the order of keys: each key once, at its
\* first occurrence
RECURSIVE DictKeys(_)
DictKeys(keys) ==
    IF keys = <<>> THEN <<>>
    ELSE LET front == DictKeys(SubSeq(keys, 1, Len(keys) - 1))
             k == keys[Len(keys)]
         IN  IF \E i \in 1..Len(front) : front[i] = k THEN front
             ELSE Append(front, k)

\* lines 148-158: the lines counted for the repos, in order
RECURSIVE YearLines(_, _)
YearLines(dirs, logs) ==
    IF dirs = <<>> THEN <<>>
    ELSE LET log == logs[Head(dirs)].year
             lines == split(strip(log.out), "\n")
             years == [i \in 1..Len(lines) |-> strip(lines[i])]
         IN  (IF log.code # 0 \/ strip(log.out) = <<>> THEN <<>>
              ELSE SelectSeq(years, LAMBDA y : y # <<>>))
                 \o YearLines(Tail(dirs), logs)

\* result.sort(key=year): stable, ascending
RECURSIVE InsertByYear(_, _)
InsertByYear(sorted, x) ==
    IF sorted = <<>> THEN <<x>>
    ELSE IF Head(sorted).year <= x.year
         THEN <<Head(sorted)>> \o InsertByYear(Tail(sorted), x)
         ELSE <<x>> \o sorted

RECURSIVE SortByYear(_)
SortByYear(s) ==
    IF s = <<>> THEN <<>>
    ELSE InsertByYear(SortByYear(SubSeq(s, 1, Len(s) - 1)), s[Len(s)])

\* lines 144-163
get_commits_per_year(dirs, logs) ==
    LET lines == YearLines(dirs, logs)
        keys == DictKeys(lines)
    IN  SortByYear([i \in 1..Len(keys) |->
            [year |-> int(keys[i]),
             commits |-> Cardinality({j \in 1..Len(lines) : lines[j] = keys[i]})]])

\* lines 205-219: the (date, subject) pairs counted for the repos, in order
RECURSIVE MonthLines(_, _)
MonthLines(dirs, logs) ==
    IF dirs = <<>> THEN <<>>
    ELSE LET log == logs[Head(dirs)].month
             lines == SelectSeq(split(strip(log.out), "\n"),
                                LAMBDA l : \E i \in 1..Len(l) : l[i] = "|")
         IN  (IF log.code # 0 \/ strip(log.out) = <<>> THEN <<>>
              ELSE [i \in 1..Len(lines) |->
                       [date |-> strip(SplitOnce(lines[i], "|")[1]),
                        type |-> classify_commit(SplitOnce(lines[i], "|")[2])]])
                 \o MonthLines(Tail(dirs), logs)

\* result.sort(key=date): stable, ascending
RECURSIVE InsertByDate(_, _)
InsertByDate(sorted, x) ==
    IF sorted = <<>> THEN <<x>>
    ELSE IF ~StrLess(x.date, Head(sorted).date)
         THEN <<Head(sorted)>> \o InsertByDate(Tail(sorted), x)
         ELSE <<x>> \o sorted

RECURSIVE SortByDate(_)
SortByDate(s) ==
    IF s = <<>> THEN <<>>
    ELSE InsertByDate(SortByDate(SubSeq(s, 1, Len(s) - 1)), s[Len(s)])

\* lines 201-235
get_commits_per_month(dirs, logs) ==
    LET pairs == MonthLines(dirs, logs)
        keys == DictKeys([i \in 1..Len(pairs) |-> pairs[i].date])
        Count(k, types) ==
            Cardinality({j \in 1..Len(pairs) :
                            pairs[j].date = k /\ pairs[j].type \in types})
    IN  SortByDate([i \in 1..Len(keys) |->
            [date |-> keys[i],
             total |-> Count(keys[i], {"Bug", "Feature", "Maintenance", "Unknown"}),
             features |-> Count(keys[i], {"Feature"}),
             bugs |-> Count(keys[i], {"Bug"}),
             maintenance |-> Count(keys[i], {"Maintenance"}),
             unknown |-> Count(keys[i], {"Unknown"})]])

\* exit codes of a git log command, and what the two commands of the counts
\* give for a repo with the given commits
CommandCodes == {0, 1}
AggregateLog(history, year_code, month_code) ==
    [year |-> [code |-> year_code,
               out |-> IF year_code = 0 THEN YearLogOutput(history) ELSE <<>>],
     month |-> [code |-> month_code,
                out |-> IF month_code = 0 THEN MonthLogOutput(history) ELSE <<>>]]

----------------------------------------------------------------------------
(* main() *)

\* the git log output drawn for whole runs of the pipeline: per repo, the
\* command fails or prints one commit
PipelineCommit(r) ==
    [hash |-> r.n, date |-> [year |-> StartYear, month |-> StartMonth, day |-> 1],
     msg |-> <<"f", "i", "x", ":">>, stat |-> TRUE, ins |-> 1, del |-> 0]
PipelineLogs(dirs) ==
    {[r \in Range(dirs) |->
         IF r \in ok THEN [code |-> 0, out |-> GitLogOutput(<<PipelineCommit(r)>>)]
         ELSE [code |-> 1, out |-> <<>>]] : ok \in SUBSET Range(dirs)}

\* what the git log commands of the two counts print in a run of the
\* pipeline: for each repo its one commit, unless one of the two fails
PipelineAggregateLogs(dirs) ==
    {[r \in Range(dirs) |->
         AggregateLog(<<PipelineCommit(r)>>, codes[r][1], codes[r][2])] :
        codes \in [Range(dirs) -> {<<0, 0>>, <<1, 0>>, <<0, 1>>}]}

NoCall == [date |-> <<>>, collect |-> FALSE, work |-> [r \in AllRepos |-> "absent"],
           exported |-> <<>>, failed |-> {}, agg_ran |-> 0, handed |-> FALSE]
NoDate == [year |-> 0, month |-> 0, day |-> 0]
NoDocument ==
    [generated |-> 0, repos_analyzed |-> <<>>, commitsMonthly |-> <<>>,
     snapshots |-> <<>>, commits |-> <<>>, commitsPerYear |-> <<>>]

\* What a run reads from outside: the configuration, the outcome of each
\* clone or fetch, the clock, the responses to the commands of each
\* analyze_version call and the output of the git log commands.  A run on
\* its own reads any of them (mode "off").  Of two runs of main() one after
\* the other, the first notes what it read (mode "record") and the second
\* is given the same again, in the order of its own reads (mode "replay").
NoReplay == [mode |-> "off", tape |-> <<>>, pos |-> 1, first |-> NoDocument,
             had_mirrors |-> {}]

\* the values the read named at may give; k counts the reads made earlier in
\* the same step
Draw(at, k, any, recorded) ==
    CASE replay.mode = "off" -> any
      [] replay.mode = "record" -> recorded
      [] OTHER ->
           IF replay.pos + k <= Len(replay.tape) /\ replay.tape[replay.pos + k].at = at
           THEN {replay.tape[replay.pos + k].val} \cap any
           ELSE {}

Read(at, val) == [at |-> at, val |-> val]

\* the reads of one step have been made
Drawn(reads) ==
    replay' = CASE replay.mode = "off" -> replay
                [] replay.mode = "record" -> [replay EXCEPT !.tape = @ \o reads]
                [] OTHER -> [replay EXCEPT !.pos = @ + Len(reads)]

\* the reads noted by the first of two runs: every repo of the
\* configuration is a ymca repo, the repos of one call meet the same fate
\* in commit resolution and export, and the git log commands of one kind
\* end alike for all repos
TwiceConfigs ==
    {c \in Configs : Len(c.github) <= 1 /\ \A i \in 1..Len(c.github) : c.github[i]}
TwiceClock == {d \in PipelineClock : d.year = StartYear + 1 /\ d.month # 10}
TwiceEnvs(dirs, collect_per_repo) ==
    {e \in CallEnvs(dirs, collect_per_repo) :
        /\ \A r1, r2 \in Range(dirs) : e.env[r1] = e.env[r2]
        /\ \A r \in Range(dirs) : e.env[r].export # "fail_empty" /\ e.env[r].rev # "fail"
        /\ e.agg.kind \in {"ok", "nophp", "timeout"} /\ e.agg.loc \in {0, 10}
        /\ \A r \in Range(dirs) : e.per[r].kind \in {"ok", "nophp", "nonzero"}}
TwiceLogs(dirs) ==
    {l \in PipelineLogs(dirs) : \A r1, r2 \in Range(dirs) : l[r1].code = l[r2].code}
TwiceAggregateLogs(dirs) ==
    {l \in PipelineAggregateLogs(dirs) :
        /\ \A r1, r2 \in Range(dirs) : l[r1].year.code = l[r2].year.code
        /\ \A r \in Range(dirs) : l[r].month.code = 0}

\* the reads of each step of main()
ConfigRead == Draw("config", 0, Configs, TwiceConfigs)
CommandRead == Draw("command", 0, CmdOutcomes, CmdOutcomes)
ClockRead == Draw("clock", 0, PipelineClock, TwiceClock)
AnalysisRead(k, collect_per_repo) ==
    Draw("analysis", k, CallEnvs(repo_dirs, collect_per_repo),
         TwiceEnvs(repo_dirs, collect_per_repo))
NowRead == Draw("now", 0, {today, MonthAfter(today)}, {today, MonthAfter(today)})
LogsRead == Draw("logs", 0, PipelineLogs(repo_dirs), TwiceLogs(repo_dirs))
AggregateLogsRead ==
    Draw("counts", 1, PipelineAggregateLogs(repo_dirs), TwiceAggregateLogs(repo_dirs))

\* the state before main() starts
Idle ==
    /\ exit_code = -1
    /\ selected = <<>>
    /\ todo = 1
    /\ attempts = [r \in AllRepos |-> <<>>]
    /\ repo_dirs = <<>>
    /\ today = NoDate
    /\ target = NoDate
    /\ snapshot_dates = <<>>
    /\ idx = 1
    /\ current_date = <<>>
    /\ snapshots = <<>>
    /\ last_call = NoCall
    /\ git_logs = <<>>
    /\ commits = <<>>
    /\ written = 0
    /\ data_file = NoDocument
    /\ aggregate_logs = <<>>
    /\ commitsPerYear = <<>>
    /\ commitsMonthly = <<>>

\* a first run (no mirror yet) or a later one (the mirrors exist)
Init ==
    /\ pc = "start"
    /\ mirrors \in {{}, AllRepos}
    /\ Idle
    /\ subject_in = <<>>
    /\ commit_type = ""
    /\ replay = NoReplay

\* lines 453-461, 470 (find_project_dir, load_config): sys.exit(1) when
\* repos_config.json or drupalisms.php is missing
ConfigAbort ==
    /\ pc = "start"
    /\ replay.mode # "replay"
    /\ pc' = "exit_config"
    /\ exit_code' = 1
    /\ UNCHANGED <<mirrors, selected, todo, attempts, repo_dirs, today, target,
                   snapshot_dates, idx, current_date, snapshots, last_call,
                   git_logs, commits, written, data_file, subject_in, commit_type,
                   aggregate_logs, commitsPerYear, commitsMonthly, replay>>

\* lines 470-482
LoadConfig ==
    /\ pc = "start"
    /\ \E config \in ConfigRead :
          /\ selected' = SelectedRepos(config)
          /\ Drawn(<<Read("config", config)>>)
    /\ pc' = "provision"
    /\ UNCHANGED <<exit_code, mirrors, todo, attempts, repo_dirs, today, target,
                   snapshot_dates, idx, current_date, snapshots, last_call,
                   git_logs, commits, written, data_file, subject_in, commit_type,
                   aggregate_logs, commitsPerYear, commitsMonthly>>

\* lines 486-497: one iteration of the provisioning loops.  A successful
\* clone creates the mirror; a failed clone leaves none.
SetupRepo ==
    /\ pc = "provision"
    /\ todo <= Len(selected)
    /\ \E outcome \in CommandRead :
          LET repo == selected[todo]
              repo_dir == setup_repo(repo, repo \in mirrors, outcome)
          IN  /\ repo_dirs' = repo_dirs \o repo_dir
              /\ mirrors' = IF outcome = "ok" THEN mirrors \cup {repo} ELSE mirrors
              /\ attempts' = [attempts EXCEPT ![repo] = Append(@, outcome)]
              /\ Drawn(<<Read("command", outcome)>>)
    /\ todo' = todo + 1
    /\ UNCHANGED <<pc, exit_code, selected, today, target, snapshot_dates, idx,
                   current_date, snapshots, last_call, git_logs, commits, written,
                   data_file, subject_in, commit_type,
                   aggregate_logs, commitsPerYear, commitsMonthly>>

\* lines 499-501
NoRepos ==
    /\ pc = "provision"
    /\ todo > Len(selected)
    /\ repo_dirs = <<>>
    /\ pc' = "exit_norepos"
    /\ exit_code' = 1
    /\ UNCHANGED <<mirrors, selected, todo, attempts, repo_dirs, today, target,
                   snapshot_dates, idx, current_date, snapshots, last_call,
                   git_logs, commits, written, data_file, subject_in, commit_type,
                   aggregate_logs, commitsPerYear, commitsMonthly, replay>>

\* lines 503-508
StartEnumeration ==
    /\ pc = "provision"
    /\ todo > Len(selected)
    /\ repo_dirs # <<>>
    /\ \E now \in ClockRead :
          /\ today' = now
          /\ Drawn(<<Read("clock", now)>>)
    /\ target' = [DISTRIBUTION_START_DATE EXCEPT !.day = 1]
    /\ snapshot_dates' = <<>>
    /\ pc' = "enumerate"
    /\ UNCHANGED <<exit_code, mirrors, selected, todo, attempts, repo_dirs, idx,
                   current_date, snapshots, last_call, git_logs, commits, written,
                   data_file, subject_in, commit_type,
                   aggregate_logs, commitsPerYear, commitsMonthly>>

\* lines 509-515: one iteration of the while loop
EnumStep ==
    /\ pc = "enumerate"
    /\ DateLE(target, today)
    /\ snapshot_dates' = Append(snapshot_dates, target)
    /\ target' = NextCheckpoint(target)
    /\ UNCHANGED <<pc, exit_code, mirrors, selected, todo, attempts, repo_dirs,
                   today, idx, current_date, snapshots, last_call, git_logs,
                   commits, written, data_file, subject_in, commit_type,
                   aggregate_logs, commitsPerYear, commitsMonthly, replay>>

\* lines 509, 517-520: the loop condition fails
EnumDone ==
    /\ pc = "enumerate"
    /\ ~DateLE(target, today)
    /\ pc' = "snapshots"
    /\ idx' = 1
    /\ snapshots' = <<>>
    /\ UNCHANGED <<exit_code, mirrors, selected, todo, attempts, repo_dirs, today,
                   target, snapshot_dates, current_date, last_call, git_logs,
                   commits, written, data_file, subject_in, commit_type,
                   aggregate_logs, commitsPerYear, commitsMonthly, replay>>

\* what main does with the result of analyze_version: "if result: append";
\* an exception ends the run with a traceback and exit status 1
AfterCall(call, next_pc) ==
    /\ last_call' = call.trace
    /\ IF call.status = "raise"
       THEN /\ pc' = "crashed"
            /\ exit_code' = 1
            /\ snapshots' = snapshots
       ELSE /\ pc' = next_pc
            /\ exit_code' = exit_code
            /\ snapshots' = IF call.status = "snapshot"
                            THEN Append(snapshots, call.snap) ELSE snapshots

\* lines 521-526: one iteration of the snapshot loop
AnalyzeSnapshot ==
    /\ pc = "snapshots"
    /\ idx <= Len(snapshot_dates)
    /\ \E e \in AnalysisRead(0, FALSE) :
          /\ AfterCall(analyze_version(repo_dirs, strftime_Ym(snapshot_dates[idx]),
                                       FALSE, e.env, e.agg, e.per), "snapshots")
          /\ Drawn(<<Read("analysis", e)>>)
    /\ idx' = idx + 1
    /\ UNCHANGED <<mirrors, selected, todo, attempts, repo_dirs, today, target,
                   snapshot_dates, current_date, git_logs, commits, written,
                   data_file, subject_in, commit_type,
                   aggregate_logs, commitsPerYear, commitsMonthly>>

\* a faulty variant that always runs the current-month analysis
SkipCurrentNever(snaps, cur) == FALSE

\* line 531: the extra analysis is skipped when the last snapshot already
\* carries the current year-month
SkipCurrent(snaps, cur) == ~(snaps = <<>> \/ Last(snaps).date # cur)

\* lines 528-535: the analysis of the current month; the clock read at line
\* 530 is the one of line 506 or later
AnalyzeCurrent ==
    /\ pc = "snapshots"
    /\ idx > Len(snapshot_dates)
    /\ \E now \in NowRead :
          /\ current_date' = strftime_Ym(now)
          /\ IF SkipCurrent(snapshots, strftime_Ym(now))
             THEN /\ pc' = "cleanup"
                  /\ Drawn(<<Read("now", now)>>)
                  /\ UNCHANGED <<exit_code, snapshots, last_call>>
             ELSE \E e \in AnalysisRead(1, TRUE) :
                     /\ AfterCall(analyze_version(repo_dirs, strftime_Ym(now), TRUE,
                                                  e.env, e.agg, e.per), "cleanup")
                     /\ Drawn(<<Read("now", now), Read("analysis", e)>>)
    /\ UNCHANGED <<mirrors, selected, todo, attempts, repo_dirs, today, target,
                   snapshot_dates, idx, git_logs, commits, written, data_file,
                   subject_in, commit_type,
                   aggregate_logs, commitsPerYear, commitsMonthly>>

\* lines 537-542: output/work is removed
Cleanup ==
    /\ pc = "cleanup"
    /\ last_call' = NoCall
    /\ pc' = "commits"
    /\ UNCHANGED <<exit_code, mirrors, selected, todo, attempts, repo_dirs, today,
                   target, snapshot_dates, idx, current_date, snapshots, git_logs,
                   commits, written, data_file, subject_in, commit_type,
                   aggregate_logs, commitsPerYear, commitsMonthly, replay>>

\* lines 544-552: the commit statistics, each from git log commands of its
\* own
CommitStatistics ==
    /\ pc = "commits"
    /\ \E logs \in LogsRead, counted \in AggregateLogsRead :
          /\ git_logs' = logs
          /\ commits' = get_recent_commits(repo_dirs, logs)
          /\ aggregate_logs' = counted
          /\ commitsPerYear' = get_commits_per_year(repo_dirs, counted)
          /\ commitsMonthly' = get_commits_per_month(repo_dirs, counted)
          /\ Drawn(<<Read("logs", logs), Read("counts", counted)>>)
    /\ pc' = "write"
    /\ UNCHANGED <<exit_code, mirrors, selected, todo, attempts, repo_dirs, today,
                   target, snapshot_dates, idx, current_date, snapshots, last_call,
                   written, data_file, subject_in, commit_type>>

\* a faulty variant that adds the lists of this run to those of data.json
DocumentAppended ==
    [generated |-> written + 1,
     repos_analyzed |-> data_file.repos_analyzed \o repo_dirs,
     commitsMonthly |-> data_file.commitsMonthly \o commitsMonthly,
     snapshots |-> data_file.snapshots \o snapshots,
     commits |-> data_file.commits \o commits,
     commitsPerYear |-> data_file.commitsPerYear \o commitsPerYear]

\* lines 555-563; generated is datetime.now(), later than the timestamp of
\* any document written before: the number of this write
Document ==
    [generated |-> written + 1,
     repos_analyzed |-> repo_dirs,
     commitsMonthly |-> commitsMonthly,
     snapshots |-> snapshots,
     commits |-> commits,
     commitsPerYear |-> commitsPerYear]

\* lines 565-594: the document is written, or the write fails and the run
\* ends with exit status 1
WriteResult ==
    /\ pc = "write"
    /\ \E ok \in BOOLEAN :
          IF ok
          THEN /\ data_file' = Document
               /\ written' = written + 1
               /\ pc' = "done"
               /\ exit_code' = 0
          ELSE /\ pc' = "exit_write"
               /\ exit_code' = 1
               /\ UNCHANGED <<data_file, written>>
    /\ UNCHANGED <<mirrors, selected, todo, attempts, repo_dirs, today, target,
                   snapshot_dates, idx, current_date, snapshots, last_call,
                   git_logs, commits, subject_in, commit_type,
                   aggregate_logs, commitsPerYear, commitsMonthly, replay>>

Next ==
    \/ ConfigAbort
    \/ LoadConfig
    \/ SetupRepo
    \/ NoRepos
    \/ StartEnumeration
    \/ EnumStep
    \/ EnumDone
    \/ AnalyzeSnapshot
    \/ AnalyzeCurrent
    \/ Cleanup
    \/ CommitStatistics
    \/ WriteResult

Spec == Init /\ [][Next]_vars

\* Two runs of main(), one after the other.  The second starts as every
\* run does (lines 452-503: all of main's variables are local), with the
\* mirrors under repos/ and the data.json the first run left, and is given
\* what the first run read.
InitTwice ==
    /\ pc = "start"
    /\ mirrors \in {{}, AllRepos}
    /\ Idle
    /\ subject_in = <<>>
    /\ commit_type = ""
    /\ replay = [NoReplay EXCEPT !.mode = "record", !.had_mirrors = mirrors]

RunAgain ==
    /\ pc = "done"
    /\ replay.mode = "record"
    /\ pc' = "start"
    /\ exit_code' = -1
    /\ selected' = <<>>
    /\ todo' = 1
    /\ attempts' = [r \in AllRepos |-> <<>>]
    /\ repo_dirs' = <<>>
    /\ today' = NoDate
    /\ target' = NoDate
    /\ snapshot_dates' = <<>>
    /\ idx' = 1
    /\ current_date' = <<>>
    /\ snapshots' = <<>>
    /\ last_call' = NoCall
    /\ git_logs' = <<>>
    /\ commits' = <<>>
    /\ aggregate_logs' = <<>>
    /\ commitsPerYear' = <<>>
    /\ commitsMonthly' = <<>>
    /\ replay' = [replay EXCEPT !.mode = "replay", !.pos = 1, !.first = data_file]
    /\ UNCHANGED <<mirrors, written, data_file, subject_in, commit_type>>

NextTwice == Next \/ RunAgain

SpecTwice == InitTwice /\ [][NextTwice]_vars

\* The checkpoint enumeration of main() (lines 505-515) on its own, entered
\* as StartEnumeration enters it, for every clock value of EnumClock.
InitEnum ==
    /\ pc = "enumerate"
    /\ exit_code = -1
    /\ mirrors = AllRepos
    /\ selected = <<GithubRepo(1)>>
    /\ todo = 2
    /\ attempts = [r \in AllRepos |-> IF r = GithubRepo(1) THEN <<"ok">> ELSE <<>>]
    /\ repo_dirs = <<GithubRepo(1)>>
    /\ today \in EnumClock
    /\ target = [DISTRIBUTION_START_DATE EXCEPT !.day = 1]
    /\ snapshot_dates = <<>>
    /\ idx = 1
    /\ current_date = <<>>
    /\ snapshots = <<>>
    /\ last_call = NoCall
    /\ git_logs = <<>>
    /\ commits = <<>>
    /\ written = 0
    /\ data_file = NoDocument
    /\ subject_in = <<>>
    /\ commit_type = ""
    /\ aggregate_logs = <<>>
    /\ commitsPerYear = <<>>
    /\ commitsMonthly = <<>>
    /\ replay = NoReplay

NextEnum == EnumStep \/ EnumDone

SpecEnum == InitEnum /\ [][NextEnum]_vars

\* classify_commit (lines 166-198) on its own: one call per subject
SubjectWords ==
    BugTypes \cup FeatureTypes
        \cup {<<"c","i">>, <<"c","h","o","r","e">>, IssueWord, MergeWord,
              <<"I","s","s","u","e">>, <<"F","i","x">>, <<" ","f","i","x">>,
              <<"f","i","x","(","a",")">>, <<"i","s","s","u","e"," ">>,
              <<"x">>, <<>>}
SubjectChars == {"(", ")", "a", "!", ":", " ", "#", "1"}
Subjects ==
    {w \o t : w \in SubjectWords,
              t \in UNION {[1..n -> SubjectChars] : n \in 0..MaxParts}}

InitClassify ==
    /\ pc = "classify_commit"
    /\ mirrors = {}
    /\ Idle
    /\ subject_in \in Subjects
    /\ commit_type = ""
    /\ replay = NoReplay

Classify ==
    /\ pc = "classify_commit"
    /\ commit_type' = classify_commit(subject_in)
    /\ pc' = "classified"
    /\ UNCHANGED <<exit_code, mirrors, selected, todo, attempts, repo_dirs, today,
                   target, snapshot_dates, idx, current_date, snapshots,
                   last_call, git_logs, commits, written, data_file, subject_in,
                   aggregate_logs, commitsPerYear, commitsMonthly, replay>>

SpecClassify == InitClassify /\ [][Classify]_vars

\* get_recent_commits (lines 267-320) on its own: one call on the git logs
\* of two repos.  The first repo's log is a short list of commits with or
\* without a diffstat summary; the second repo's git log fails, or lists a
\* commit or none and then none or BulkLen commits of one day.
RecentDates ==
    {[year |-> 2025, month |-> 12, day |-> 31],
     [year |-> 2026, month |-> 1, day |-> 1],
     [year |-> 2026, month |-> 1, day |-> 2]}
BulkDate == [year |-> 2026, month |-> 1, day |-> 1]
RecentStats ==
    {[stat |-> FALSE, ins |-> 0, del |-> 0],
     [stat |-> TRUE, ins |-> 0, del |-> 0],
     [stat |-> TRUE, ins |-> 3, del |-> 2]}
RecentCommit(h, d, st) ==
    [hash |-> h, date |-> d, msg |-> <<"f", "i", "x", ":">>,
     stat |-> st.stat, ins |-> st.ins, del |-> st.del]
ShortHistories(base, n) ==
    UNION {{[i \in 1..k |-> RecentCommit(base + i, f[i][1], f[i][2])] :
               f \in [1..k -> RecentDates \X RecentStats]} : k \in 0..n}
BulkHistory(base, n) ==
    [i \in 1..n |->
        RecentCommit(base + i, BulkDate, [stat |-> TRUE, ins |-> 1, del |-> 1])]
RecentRepos == <<GithubRepo(1), DrupalRepo(1)>>
RecentLogs ==
    {[r \in Range(RecentRepos) |-> IF r = GithubRepo(1) THEN a ELSE b] :
        a \in {[code |-> 0, out |-> GitLogOutput(h)] :
                  h \in ShortHistories(1000, MaxRecent)},
        b \in {[code |-> 1, out |-> <<>>]} \cup
              {[code |-> 0, out |-> GitLogOutput(h \o BulkHistory(2001, n))] :
                  h \in ShortHistories(2000, 1), n \in {0, BulkLen}}}

InitRecent ==
    /\ pc = "get_recent_commits"
    /\ exit_code = -1
    /\ mirrors = AllRepos
    /\ selected = RecentRepos
    /\ todo = 3
    /\ attempts = [r \in AllRepos |-> IF r \in Range(RecentRepos) THEN <<"ok">> ELSE <<>>]
    /\ repo_dirs = RecentRepos
    /\ today = NoDate
    /\ target = NoDate
    /\ snapshot_dates = <<>>
    /\ idx = 1
    /\ current_date = <<>>
    /\ snapshots = <<>>
    /\ last_call = NoCall
    /\ git_logs \in RecentLogs
    /\ commits = <<>>
    /\ written = 0
    /\ data_file = NoDocument
    /\ subject_in = <<>>
    /\ commit_type = ""
    /\ aggregate_logs = <<>>
    /\ commitsPerYear = <<>>
    /\ commitsMonthly = <<>>
    /\ replay = NoReplay

RecentCommits ==
    /\ pc = "get_recent_commits"
    /\ commits' = get_recent_commits(repo_dirs, git_logs)
    /\ pc' = "returned"
    /\ UNCHANGED <<exit_code, mirrors, selected, todo, attempts, repo_dirs, today,
                   target, snapshot_dates, idx, current_date, snapshots,
                   last_call, git_logs, written, data_file, subject_in,
                   commit_type,
                   aggregate_logs, commitsPerYear, commitsMonthly, replay>>

SpecRecent == InitRecent /\ [][RecentCommits]_vars


\* get_commits_per_year and get_commits_per_month (lines 144-163, 201-235)
\* on their own: one call of each on the full logs of two repos.  Both git
\* log commands of a repo print the same commits; each may fail on the
\* first repo.
LoggedDates ==
    {[year |-> 2015, month |-> 12], [year |-> 2016, month |-> 1],
     [year |-> 2016, month |-> 12]}
LoggedSubjects == {<<>>, <<"f", "i", "x", ":", " ">>, <<"a", "|", "b">>}
LoggedHistories(n) ==
    UNION {[1..k -> [date : LoggedDates, msg : LoggedSubjects]] : k \in 0..n}
AggregateLogs ==
    {[r \in Range(RecentRepos) |-> IF r = GithubRepo(1) THEN a ELSE b] :
        a \in {AggregateLog(h, yc, mc) :
                  h \in LoggedHistories(MaxLogged), yc \in CommandCodes,
                  mc \in CommandCodes},
        b \in {AggregateLog(h, 0, 0) : h \in LoggedHistories(1)}}

InitCounts ==
    /\ pc = "commit_counts"
    /\ exit_code = -1
    /\ mirrors = AllRepos
    /\ selected = RecentRepos
    /\ todo = 3
    /\ attempts = [r \in AllRepos |-> IF r \in Range(RecentRepos) THEN <<"ok">> ELSE <<>>]
    /\ repo_dirs = RecentRepos
    /\ today = NoDate
    /\ target = NoDate
    /\ snapshot_dates = <<>>
    /\ idx = 1
    /\ current_date = <<>>
    /\ snapshots = <<>>
    /\ last_call = NoCall
    /\ git_logs = <<>>
    /\ commits = <<>>
    /\ written = 0
    /\ data_file = NoDocument
    /\ subject_in = <<>>
    /\ commit_type = ""
    /\ aggregate_logs \in AggregateLogs
    /\ commitsPerYear = <<>>
    /\ commitsMonthly = <<>>
    /\ replay = NoReplay

CommitCounts ==
    /\ pc = "commit_counts"
    /\ commitsPerYear' = get_commits_per_year(repo_dirs, aggregate_logs)
    /\ commitsMonthly' = get_commits_per_month(repo_dirs, aggregate_logs)
    /\ pc' = "counted"
    /\ UNCHANGED <<exit_code, mirrors, selected, todo, attempts, repo_dirs, today,
                   target, snapshot_dates, idx, current_date, snapshots,
                   last_call, git_logs, commits, written, data_file, subject_in,
                   commit_type, aggregate_logs, replay>>

SpecCounts == InitCounts /\ [][CommitCounts]_vars

----------------------------------------------------------------------------
(* Properties of main() *)

Provisioned == pc \notin {"start", "exit_config", "provision"}
PastProvisioning ==
    pc \in {"enumerate", "snapshots", "cleanup", "commits", "write", "done",
            "exit_write"}

\* C1: a run that gets past provisioning is never aborted by a failed
\* commit lookup, export, analyzer run or git log: it reaches the final
\* write, where it writes exactly one result document (or the write itself
\* fails), after every checkpoint, the current month and the commit
\* statistics were processed; a run aborted at configuration or
\* provisioning writes none.
C1_Safety ==
    /\ written <= 1
    /\ pc # "crashed"
    /\ pc \in {"exit_config", "exit_norepos"} => written = 0 /\ exit_code = 1
    /\ PastProvisioning /\ pc # "done" => written = 0
    /\ pc \in {"write", "done"} =>
          /\ idx = Len(snapshot_dates) + 1
          /\ current_date # <<>>
          /\ DOMAIN git_logs = Range(repo_dirs)
    /\ pc = "done" =>
          /\ written = 1
          /\ exit_code = 0
          /\ data_file = [Document EXCEPT !.generated = written]

\* the order of the stages of main(), and the work left within a stage
Stage(p) ==
    CASE p = "start" -> 0
      [] p = "provision" -> 1
      [] p = "enumerate" -> 2
      [] p = "snapshots" -> 3
      [] p = "cleanup" -> 4
      [] p = "commits" -> 5
      [] p = "write" -> 6
      [] OTHER -> 7

MonthIndex(d) == d.year * 12 + d.month

WorkLeft ==
    CASE pc = "provision" -> Len(selected) + 1 - todo
      [] pc = "enumerate" -> MonthIndex(today) + 6 - MonthIndex(target)
      [] pc = "snapshots" -> Len(snapshot_dates) + 1 - idx
      [] OTHER -> 0

\* every step moves main() to a later stage or reduces the work left in its
\* stage, which is never negative
C1_Progress ==
    \/ Stage(pc') > Stage(pc)
    \/ /\ pc' = pc
       /\ WorkLeft' < WorkLeft
       /\ WorkLeft' >= 0

\* past provisioning the run is never stuck short of the final write: in
\* every stage a step of that stage can be taken
C1_NeverStuck ==
    /\ pc = "enumerate" => ENABLED (EnumStep \/ EnumDone)
    /\ pc = "snapshots" => ENABLED (AnalyzeSnapshot \/ AnalyzeCurrent)
    /\ pc = "cleanup" => ENABLED Cleanup
    /\ pc = "commits" => PipelineLogs(repo_dirs) # {}
    /\ pc = "write" => ENABLED WriteResult

C1_OneDocumentPerRun ==
    /\ []C1_Safety
    /\ []C1_NeverStuck
    /\ [][C1_Progress]_vars

\* a run in which every analysis and every git log failed still wrote its
\* document
C1_Witness ==
    /\ pc = "done"
    /\ written = 1
    /\ Len(snapshot_dates) >= 2
    /\ data_file.snapshots = <<>>
    /\ data_file.commits = <<>>

\* C2: each selected repo is set up exactly once; repo_dirs holds, in
\* order, exactly the repos whose clone or fetch succeeded, and nothing
\* later in the run touches another repo; the run aborts at provisioning
\* exactly when no repo is usable.
SetupOk(r) == attempts[r] = <<"ok">>

C2_ProvisioningTolerant ==
    /\ \A r \in AllRepos : Len(attempts[r]) <= 1
    /\ pc = "provision" =>
          repo_dirs = SelectSeq(SubSeq(selected, 1, todo - 1), SetupOk)
    /\ Provisioned =>
          /\ \A r \in AllRepos : Len(attempts[r]) = (IF r \in Range(selected) THEN 1 ELSE 0)
          /\ repo_dirs = SelectSeq(selected, SetupOk)
    /\ pc = "exit_norepos" <=> (Provisioned /\ \A r \in Range(selected) : ~SetupOk(r))
    /\ pc = "exit_norepos" => exit_code = 1
    /\ \A r \in AllRepos :
          last_call.work[r] # "absent" \/ r \in DOMAIN git_logs => r \in Range(repo_dirs)
    /\ \A i \in 1..Len(commits) : commits[i].repo \in Range(repo_dirs)
    /\ pc = "done" => data_file.repos_analyzed = repo_dirs

\* a failed fetch of an existing mirror and a successful setup of another
\* repo, with the run going on
C2_Witness ==
    /\ pc = "snapshots"
    /\ last_call.exported # <<>>
    /\ \E r \in Range(selected) : attempts[r] = <<"fail">> /\ r \in mirrors
    /\ Len(repo_dirs) = 1

\* C3: a call of analyze_version that exported no repo starts no analyzer
\* run and returns nothing: the snapshot list holds no entry for its
\* checkpoint.
C3_NoSnapshotWithoutExport ==
    last_call.date # <<>> /\ last_call.exported = <<>> =>
        /\ last_call.agg_ran = 0
        /\ ~last_call.handed
        /\ \A i \in 1..Len(snapshots) : snapshots[i].date # last_call.date

\* a checkpoint after an earlier successful one at which every export
\* failed or found no commit
C3_Witness ==
    /\ last_call.date # <<>>
    /\ last_call.exported = <<>>
    /\ last_call.failed # {}
    /\ snapshots # <<>>
    /\ pc = "snapshots"

\* C4: the tree handed to the aggregate analyzer holds no file of a repo
\* whose export failed at that checkpoint.
C4_FailedRepoExcluded ==
    last_call.handed =>
        \A r \in last_call.failed : last_call.work[r] \notin {"partial", "full"}

\* C5: in the result document, the snapshot of the current year-month
\* carries the per-repo breakdown and no earlier snapshot does.
C5_CurrentSnapshotHasPerRepo ==
    pc = "done" =>
        \A i \in 1..Len(data_file.snapshots) :
            LET snap == data_file.snapshots[i] IN
            /\ snap.date = current_date => snap.hasPerRepo
            /\ LexLess(snap.date, current_date) => ~snap.hasPerRepo

\* the i-th semi-annual checkpoint, counted in months from the epoch
Checkpoint(i) ==
    LET months == StartYear * 12 + (StartMonth - 1) + 6 * (i - 1)
    IN  [year |-> months \div 12, month |-> (months % 12) + 1, day |-> 1]

\* the first day of checkpoint c is at or before the date d
AtOrBefore(c, d) == MonthIndex(c) <= MonthIndex(d)

C6_Checkpoints ==
    LET n == Len(snapshot_dates) IN
    /\ \A i \in 1..n :
          /\ snapshot_dates[i] = Checkpoint(i)
          /\ AtOrBefore(snapshot_dates[i], today)
    /\ \A i \in 1..(n - 1) :
          LET a == snapshot_dates[i]
              b == snapshot_dates[i + 1]
          IN  /\ LexLess(strftime_Ym(a), strftime_Ym(b))
              /\ IF a.month + 6 > 12
                 THEN b.year = a.year + 1 /\ b.month = a.month + 6 - 12
                 ELSE b.year = a.year /\ b.month = a.month + 6
    /\ target = Checkpoint(n + 1)
    /\ pc = "snapshots" => n >= 1 /\ ~AtOrBefore(Checkpoint(n + 1), today)

\* each iteration brings the loop closer to its end, which it reaches
C6_Progress ==
    \/ pc = "enumerate" /\ pc' = "snapshots"
    \/ /\ pc' = pc
       /\ MonthIndex(today') + 6 - MonthIndex(target')
             < MonthIndex(today) + 6 - MonthIndex(target)
       /\ MonthIndex(today') + 6 - MonthIndex(target') >= 0

C6_LoopGoesOn == pc = "enumerate" => ENABLED NextEnum

\* C6: for every clock value the enumeration terminates, and its list is
\* exactly the checkpoints 2015-10, 2016-04, 2016-10, ... (6 months apart,
\* the year rolling over when month + 6 exceeds 12, strictly increasing)
\* whose first day is at or before the current date.
C6_EnumerationExact ==
    /\ []C6_Checkpoints
    /\ []C6_LoopGoesOn
    /\ [][C6_Progress]_vars

\* the current date is the first day of a checkpoint month, years after
\* the epoch: that checkpoint is the last of the list
C6_Witness ==
    /\ pc = "snapshots"
    /\ Len(snapshot_dates) >= 4
    /\ today.day = 1
    /\ Last(snapshot_dates) = today

\* C7: snapshot dates are strictly increasing, in main's list at every point
\* of the run and in the result document.
StrictlyIncreasingDates(snaps) ==
    \A i \in 1..Len(snaps) : \A j \in 1..Len(snaps) :
        i < j => LexLess(snaps[i].date, snaps[j].date)

C7_SnapshotsChronological ==
    /\ StrictlyIncreasingDates(snapshots)
    /\ StrictlyIncreasingDates(data_file.snapshots)

\* the current month is a checkpoint month whose snapshot exists, after a
\* checkpoint without snapshot, so the extra analysis is skipped
C7_Witness ==
    /\ pc = "done"
    /\ Len(data_file.snapshots) >= 2
    /\ Len(data_file.snapshots) < Len(snapshot_dates)
    /\ Last(data_file.snapshots).date = current_date
    /\ ~Last(data_file.snapshots).hasPerRepo

----------------------------------------------------------------------------
(* Properties of classify_commit *)

\* the reference classifier, on the subject without surrounding whitespace
\* and compared letter by letter without regard to case
Trimmed(str) ==
    LET inked == {i \in 1..Len(str) : str[i] \notin Whitespace} IN
    IF inked = {} THEN <<>>
    ELSE SubSeq(str, CHOOSE i \in inked : \A j \in inked : i <= j,
                     CHOOSE i \in inked : \A j \in inked : i >= j)

BeginsWith(str, word) ==
    /\ Len(word) <= Len(str)
    /\ \A i \in 1..Len(word) : LowerChar(str[i]) = word[i]

\* type[(scope)][!]: with a scope of one or more characters other than ")"
HasForm(str, types) ==
    \E t \in types : \E scope \in 0..Len(str) : \E bang \in 0..1 :
        LET open == Len(t) + 1
            colon == Len(t) + scope + bang + 1
        IN  /\ BeginsWith(str, t)
            /\ colon <= Len(str)
            /\ str[colon] = ":"
            /\ bang = 1 => str[colon - 1] = "!"
            /\ scope > 0 =>
                  /\ scope >= 3
                  /\ str[open] = "("
                  /\ str[open + scope - 1] = ")"
                  /\ \A k \in (open + 1)..(open + scope - 2) : str[k] # ")"

\* issue #<digits>, as written
IssueRefLiteral(str) ==
    /\ BeginsWith(str, IssueWord \o <<" ", "#">>)
    /\ Len(str) >= 8
    /\ str[8] \in Digits

\* issue, any whitespace, an optional "#", a digit
IssueRefLoose(str) ==
    /\ BeginsWith(str, IssueWord)
    /\ \E spaces \in 0..Len(str) : \E hash \in 0..1 :
          LET digit == 5 + spaces + hash + 1 IN
          /\ digit <= Len(str)
          /\ str[digit] \in Digits
          /\ hash = 1 => str[digit - 1] = "#"
          /\ \A k \in 6..(5 + spaces) : str[k] \in Whitespace

Reference(str, issue_ref) ==
    CASE HasForm(str, BugTypes) -> "Bug"
      [] HasForm(str, FeatureTypes) -> "Feature"
      [] HasForm(str, MaintenanceTypes) -> "Maintenance"
      [] issue_ref \/ BeginsWith(str, MergeWord) -> "Maintenance"
      [] OTHER -> "Unknown"

\* str.upper()
upper(str) ==
    [i \in 1..Len(str) |->
        IF \E k \in 1..Len(LowerCase) : LowerCase[k] = str[i]
        THEN UpperCase[CHOOSE k \in 1..Len(LowerCase) : LowerCase[k] = str[i]]
        ELSE str[i]]

\* C8 as stated: classify_commit agrees with the reference classifier whose
\* issue-reference pattern is "issue #<digits>".
C8_AgreesWithLiteralReference ==
    pc = "classified" =>
        commit_type = Reference(Trimmed(subject_in), IssueRefLiteral(Trimmed(subject_in)))

\* C8, amended: classify_commit returns one of the four types, the same for
\* a subject in any letter case, and agrees with the reference classifier
\* whose issue-reference pattern is "issue", optional whitespace, an
\* optional "#", and at least one digit.
C8_AgreesWithLooseReference ==
    pc = "classified" =>
        /\ commit_type \in {"Bug", "Feature", "Maintenance", "Unknown"}
        /\ commit_type = classify_commit(subject_in)
        /\ commit_type = classify_commit(upper(subject_in))
        /\ commit_type = classify_commit(lower(subject_in))
        /\ commit_type =
              Reference(Trimmed(subject_in), IssueRefLoose(Trimmed(subject_in)))

\* an issue reference in mixed case without "#" is Maintenance
C8_Witness ==
    /\ pc = "classified"
    /\ subject_in = <<"I","s","s","u","e"," ","1","1">>
    /\ commit_type = "Maintenance"

----------------------------------------------------------------------------
(* Properties of get_recent_commits *)

\* the formatted date a is later than the formatted date b
Newer(a, b) ==
    \/ a.Y > b.Y
    \/ a.Y = b.Y /\ a.b > b.b
    \/ a.Y = b.Y /\ a.b = b.b /\ a.d > b.d

\* the commits a repo's git log lists: one per header line, its changed-line
\* count taken from the diffstat summary that follows the header, if any
LoggedCommits(r) ==
    LET out == git_logs[r].out IN
    {[repo |-> r,
      hash |-> out[i].hash,
      date |-> strftime_bdY(strptime_Ymd(out[i].date)),
      lines |-> IF i < Len(out) /\ out[i + 1].kind = "changed"
                THEN CountOf(out[i + 1].ins) + CountOf(out[i + 1].del)
                ELSE 0] : i \in {i \in 1..Len(out) : out[i].kind = "header"}}

FeedCandidates ==
    UNION {LoggedCommits(r) : r \in {r \in Range(repo_dirs) : git_logs[r].code = 0}}

FeedEntries ==
    {[repo |-> commits[i].repo, hash |-> commits[i].hash,
      date |-> commits[i].date, lines |-> commits[i].lines] : i \in 1..Len(commits)}

\* C9: every commit listed by a successful git log is a candidate, with
\* lines = insertions + deletions, or 0 without a diffstat summary; the feed
\* is the 200 newest candidates (all of them when there are at most 200)
\* and its entries carry no sort key.
C9_FeedIsNewestCandidates ==
    pc = "returned" =>
        /\ Len(commits) =
              (IF Cardinality(FeedCandidates) <= FeedLimit
               THEN Cardinality(FeedCandidates) ELSE FeedLimit)
        /\ FeedEntries \subseteq FeedCandidates
        /\ \A c \in FeedCandidates \ FeedEntries :
              \A f \in FeedEntries : ~Newer(c.date, f.date)
        /\ \A i \in 1..Len(commits) : "sort_date" \notin DOMAIN commits[i]

\* C10: the feed has at most 200 entries and no entry is newer than the
\* one before it.
C10_FeedCappedAndNewestFirst ==
    pc = "returned" =>
        /\ Len(commits) <= FeedLimit
        /\ \A i \in 1..(Len(commits) - 1) :
              ~Newer(commits[i + 1].date, commits[i].date)

\* more than 200 commits from two repos, some newer and some older than the
\* bulk, and the feed is full
C10_Witness ==
    /\ pc = "returned"
    /\ Len(commits) = FeedLimit
    /\ \A r \in Range(repo_dirs) : \E i \in 1..Len(commits) : commits[i].repo = r
    /\ Len(git_logs[DrupalRepo(1)].out) + Len(git_logs[GithubRepo(1)].out) > 3 * FeedLimit
    /\ commits[1].date # commits[FeedLimit].date

----------------------------------------------------------------------------
(* Properties of the commit counts *)

\* both counts read the same logs: for each repo the two git log commands
\* both succeeded or both failed
SameLogsRead ==
    \A r \in Range(repo_dirs) :
        aggregate_logs[r].year.code = aggregate_logs[r].month.code

\* the calendar year of a per-month entry
YearOfMonth(entry) == int(SubSeq(entry.date, 1, 4))

RECURSIVE SumOfTotals(_, _)
SumOfTotals(monthly, y) ==
    IF monthly = <<>> THEN 0
    ELSE (IF YearOfMonth(Head(monthly)) = y THEN Head(monthly).total ELSE 0)
             + SumOfTotals(Tail(monthly), y)

\* C11: computed from the same logs, the per-month totals of each year add
\* up to that year's per-year count, a year has a per-year entry exactly
\* when it has a per-month entry, and both lists ascend by period.
C11_MonthlyAgreesWithYearly ==
    pc = "counted" /\ SameLogsRead =>
        LET per_year == {commitsPerYear[i].year : i \in 1..Len(commitsPerYear)}
            per_month == {YearOfMonth(commitsMonthly[i]) : i \in 1..Len(commitsMonthly)}
        IN  /\ per_year = per_month
            /\ \A i \in 1..Len(commitsPerYear) :
                  commitsPerYear[i].commits
                      = SumOfTotals(commitsMonthly, commitsPerYear[i].year)
            /\ \A i \in 1..(Len(commitsPerYear) - 1) :
                  commitsPerYear[i].year < commitsPerYear[i + 1].year
            /\ \A i \in 1..(Len(commitsMonthly) - 1) :
                  StrLess(commitsMonthly[i].date, commitsMonthly[i + 1].date)
            /\ \A i \in 1..Len(commitsMonthly) :
                  commitsMonthly[i].total =
                      commitsMonthly[i].features + commitsMonthly[i].bugs
                          + commitsMonthly[i].maintenance + commitsMonthly[i].unknown

\* commits of two repos in two years, one month with two commits, a bug
\* fix and one with a "|" in its subject
C11_Witness ==
    /\ pc = "counted"
    /\ SameLogsRead
    /\ Len(commitsPerYear) = 2
    /\ Len(commitsMonthly) = 2
    /\ commitsMonthly[2].total = 2
    /\ commitsMonthly[2].bugs = 1
    /\ commitsMonthly[2].unknown = 1
    /\ aggregate_logs[DrupalRepo(1)].month.out
          = <<"2", "0", "1", "6", "-", "0", "1", "|", "a", "|", "b">>

----------------------------------------------------------------------------
(* Properties of two runs on the same inputs *)

\* a result document without its generation timestamp
WithoutTimestamp(doc) == [k \in DOMAIN doc \ {"generated"} |-> doc[k]]

\* the second run can make its next read: what the first run read at this
\* point is what the second asks for and is a value it may get
SecondRunReads ==
    /\ pc = "start" => ConfigRead # {}
    /\ pc = "provision" /\ todo <= Len(selected) => CommandRead # {}
    /\ pc = "provision" /\ todo > Len(selected) => repo_dirs # <<>> /\ ClockRead # {}
    /\ pc = "snapshots" /\ idx <= Len(snapshot_dates) => AnalysisRead(0, FALSE) # {}
    /\ pc = "snapshots" /\ idx > Len(snapshot_dates) =>
          /\ NowRead # {}
          /\ \A now \in NowRead :
                SkipCurrent(snapshots, strftime_Ym(now)) \/ AnalysisRead(1, TRUE) # {}
    /\ pc = "commits" => LogsRead # {} /\ AggregateLogsRead # {}
    /\ pc \in {"write", "done", "exit_write"} => replay.pos = Len(replay.tape) + 1

\* C12: two runs of main() on the same configuration, with the same
\* outcomes of the git commands, the same analyzer responses and the same
\* clock readings, write result documents that are equal in repos_analyzed,
\* snapshots, commits, commitsMonthly and commitsPerYear (as lists, in the
\* same order) and may differ in generated only; the second run follows the
\* first read by read and does not end before the write, also when the
\* first run cloned the mirrors and the second fetches.
C12_SecondRunWritesTheSame ==
    replay.mode = "replay" =>
        /\ SecondRunReads
        /\ pc \notin {"exit_config", "exit_norepos", "crashed"}
        /\ pc = "done" =>
              /\ written = 2
              /\ WithoutTimestamp(data_file) = WithoutTimestamp(replay.first)
              /\ DOMAIN data_file = DOMAIN replay.first

\* the first run cloned two mirrors, the second fetched them, and both
\* wrote a document with snapshots, feed entries and counts
C12_Witness ==
    /\ replay.mode = "replay"
    /\ pc = "done"
    /\ written = 2
    /\ replay.had_mirrors = {}
    /\ Len(repo_dirs) = 2
    /\ \A i \in 1..2 : attempts[repo_dirs[i]] = <<"ok">>
    /\ Len(data_file.snapshots) >= 2
    /\ Last(data_file.snapshots).hasPerRepo
    /\ Len(Last(data_file.snapshots).perRepo) = 2
    /\ data_file.commits # <<>>
    /\ data_file.commitsPerYear # <<>>
    /\ data_file.commitsMonthly # <<>>
    /\ data_file.generated # replay.first.generated

====
